---- MODULE Spec2Model ----
(***************************************************************************)
(* A model of resonator/base.py: the ResonatorFitter class, its            *)
(* constructor, guess(), fit(), the attribute fallback __getattr__, the    *)
(* weights property, remove_background(), invert(),                        *)
(* remove_background_and_invert(), the model evaluations, the snapshot of  *)
(* measurement_model_resonance() and the derived quantities.  guess() and  *)
(* fit() are modelled step by step, one step per call of a plug-in or of   *)
(* the optimizer, so that the states in the middle of a fit exist; the     *)
(* reads are one step each.                                                *)
(*                                                                         *)
(* Numbers are exact: a real is a normalised fraction <<n, d>> with d > 0, *)
(* or one of the IEEE specials inf, -inf, nan that numpy produces when     *)
(* dividing by zero or by infinity.  A complex number is a record          *)
(* [re, im] of reals.  An array is a record [dtype, v] whose v is a        *)
(* sequence of complex numbers.                                            *)
(***************************************************************************)
EXTENDS Integers, Sequences, FiniteSets, TLC

(***************************************************************************)
(* Bounds of the model.                                                    *)
(***************************************************************************)
\* number of points of the frequency, data and errors arrays
NPoints == 2
\* the data arrays offered to the constructor and to guess() are Data(0..MaxSeed)
MaxSeed == 1

\* Python's None for an optional value, and a present value
None == <<>>
Some(x) == <<x>>
IsNone(o) == o = <<>>
Val(o) == o[1]

(***************************************************************************)
(* Exact real arithmetic with the IEEE specials.  A real is <<n, d>> in    *)
(* lowest terms with d > 0; <<1, 0>> is inf, <<-1, 0>> is -inf and         *)
(* <<0, 0>> is nan.                                                        *)
(***************************************************************************)
Abs(n) == IF n < 0 THEN -n ELSE n

RECURSIVE GCD(_, _)
GCD(a, b) == IF b = 0 THEN a ELSE GCD(b, a % b)

Sgn(n) == IF n > 0 THEN 1 ELSE IF n < 0 THEN -1 ELSE 0

\* the fraction n/d in lowest terms with a positive denominator; n/0 is a special
Q(n, d) ==
    IF d = 0 THEN <<Sgn(n), 0>>
    ELSE LET g == GCD(Abs(n), Abs(d))
             s == IF d < 0 THEN -1 ELSE 1
         IN  <<(s * n) \div g, (s * d) \div g>>

R(n) == <<n, 1>>
Zero == R(0)
One == R(1)
Inf == <<1, 0>>
NegInf == <<-1, 0>>
NaN == <<0, 0>>

IsFinite(x) == x[2] # 0

RNeg(x) == <<-x[1], x[2]>>

\* the sign of a real that is not nan: -1, 0, 1
RSign(x) == Sgn(x[1])

RAdd(x, y) ==
    IF x = NaN \/ y = NaN THEN NaN
    ELSE IF ~IsFinite(x) /\ ~IsFinite(y) THEN (IF x = y THEN x ELSE NaN)
    ELSE IF ~IsFinite(x) THEN x
    ELSE IF ~IsFinite(y) THEN y
    ELSE Q(x[1] * y[2] + y[1] * x[2], x[2] * y[2])

RSub(x, y) == RAdd(x, RNeg(y))

RMul(x, y) ==
    IF x = NaN \/ y = NaN THEN NaN
    ELSE IF IsFinite(x) /\ IsFinite(y) THEN Q(x[1] * y[1], x[2] * y[2])
    ELSE <<RSign(x) * RSign(y), 0>>

\* IEEE division: x/0 is +-inf (nan for 0/0), finite/inf is 0, inf/inf is nan
RDiv(x, y) ==
    IF x = NaN \/ y = NaN THEN NaN
    ELSE IF ~IsFinite(y) THEN (IF IsFinite(x) THEN Zero ELSE NaN)
    ELSE IF ~IsFinite(x) THEN
        (IF RSign(y) = 0 \/ RSign(y) = RSign(x) THEN Inf ELSE NegInf)
    ELSE Q(x[1] * y[2], x[2] * y[1])

RAbs(x) == <<Abs(x[1]), x[2]>>

\* x >= y for reals that are not nan
RGeq(x, y) ==
    IF x = Inf \/ y = NegInf THEN TRUE
    ELSE IF x = NegInf \/ y = Inf THEN FALSE
    ELSE x[1] * y[2] >= y[1] * x[2]

(***************************************************************************)
(* Complex arithmetic as numpy computes it.                                *)
(***************************************************************************)
C(re, im) == [re |-> re, im |-> im]
CInt(a, b) == C(R(a), R(b))

CMul(x, y) ==
    C(RSub(RMul(x.re, y.re), RMul(x.im, y.im)),
      RAdd(RMul(x.re, y.im), RMul(x.im, y.re)))

CAdd(x, y) == C(RAdd(x.re, y.re), RAdd(x.im, y.im))

\* numpy's complex division (Smith's algorithm): a zero divisor gives the
\* components of x divided by 0.0
CDivSmith(x, y, big, small, swap) ==
    LET rat == RDiv(small, big)
        scl == RDiv(One, RAdd(big, RMul(small, rat)))
    IN  IF swap
        THEN C(RMul(RAdd(RMul(x.re, rat), x.im), scl),
               RMul(RSub(RMul(x.im, rat), x.re), scl))
        ELSE C(RMul(RAdd(x.re, RMul(x.im, rat)), scl),
               RMul(RSub(x.im, RMul(x.re, rat)), scl))

CDiv(x, y) ==
    IF y.re = NaN \/ y.im = NaN THEN C(NaN, NaN)
    ELSE IF RGeq(RAbs(y.re), RAbs(y.im))
    THEN IF RSign(y.re) = 0 /\ RSign(y.im) = 0
         THEN C(RDiv(x.re, Zero), RDiv(x.im, Zero))
         ELSE CDivSmith(x, y, y.re, y.im, FALSE)
    ELSE CDivSmith(x, y, y.im, y.re, TRUE)

(***************************************************************************)
(* Arrays.                                                                 *)
(***************************************************************************)
Complex128 == "complex128"
Float64 == "float64"

Arr(dtype, v) == [dtype |-> dtype, v |-> v]

\* np.iscomplexobj
IsComplexObj(a) == a.dtype = Complex128

\* numpy broadcasting of two one-dimensional arrays: a length-1 array is repeated
BcLen(a, b) == IF Len(a.v) >= Len(b.v) THEN Len(a.v) ELSE Len(b.v)
Bc(a, i) == IF Len(a.v) = 1 THEN a.v[1] ELSE a.v[i]

\* array / complex scalar, array / array and array * array, elementwise
ArrDivScalar(a, z) == Arr(Complex128, [i \in 1..Len(a.v) |-> CDiv(a.v[i], z)])
ArrDiv(a, b) == Arr(Complex128, [i \in 1..BcLen(a, b) |-> CDiv(Bc(a, i), Bc(b, i))])
ArrMul(a, b) == Arr(Complex128, [i \in 1..BcLen(a, b) |-> CMul(Bc(a, i), Bc(b, i))])

(***************************************************************************)
(* lmfit Parameters: a mapping from a name to a Parameter (value, min,     *)
(* max, vary, stderr).  update() is the dict update: the entries of q      *)
(* replace those of p that have the same name.                             *)
(***************************************************************************)
Param(value, min, max, vary) ==
    [value |-> value, min |-> min, max |-> max, vary |-> vary, stderr |-> None]

NoParams == [n \in {} |-> Param(Zero, NegInf, Inf, TRUE)]

Update(p, q) ==
    [n \in DOMAIN p \cup DOMAIN q |-> IF n \in DOMAIN q THEN q[n] ELSE p[n]]

(***************************************************************************)
(* The model plug-ins handed to the constructor.  The foreground model     *)
(* carries the class attribute reference_point (None in the base class     *)
(* ResonatorModel, 1 for a shunt resonator, -1 for a reflection).  The     *)
(* background is a real gain with a first-order cable delay,               *)
(* gain * (1 + 1j * frequency); its guess reads the gain off the first     *)
(* point.  A background whose kind is "clash" also guesses a parameter     *)
(* named like one of the foreground's.                                     *)
(***************************************************************************)
FgModels == {[reference_point |-> r] : r \in {None, Some(CInt(1, 0)), Some(CInt(-1, 0))}}
BgModels == {[kind |-> k] : k \in {"plain", "clash"}}

\* the CompositeModel background_model * foreground_model
Composite(bg, fg) == [left |-> bg, right |-> fg]

BackgroundGuess(bg, data, frequency) ==
    LET g == [n \in {"gain"} |-> Param(data.v[1].re, NegInf, Inf, TRUE)]
    IN  IF bg.kind = "clash"
        THEN Update(g, [n \in {"coupling_loss"} |-> Param(R(5), NegInf, Inf, TRUE)])
        ELSE g

\* frequency is a sequence of reals
BackgroundEval(bg, params, frequency) ==
    Arr(Complex128, [i \in 1..Len(frequency) |->
        CMul(C(params["gain"].value, Zero), C(One, frequency[i]))])

ForegroundGuess(fg, data, frequency) ==
    [n \in {"resonance_frequency", "internal_loss", "coupling_loss"} |->
        IF n = "resonance_frequency"
        THEN Param(frequency[1], NegInf, Inf, TRUE)
        ELSE IF n = "internal_loss"
        THEN Param(data.v[Len(data.v)].re, Zero, Inf, TRUE)
        ELSE Param(One, Zero, Inf, TRUE)]

\* the foreground, first order in the losses and in the detuning:
\* reference_point * (1 - coupling_loss + internal_loss
\*                    + 2j * (frequency - resonance_frequency))
ForegroundEval(fg, params, frequency) ==
    Arr(Complex128, [i \in 1..Len(frequency) |->
        CMul(Val(fg.reference_point),
             C(RAdd(RSub(One, params["coupling_loss"].value),
                    params["internal_loss"].value),
               RMul(R(2), RSub(frequency[i], params["resonance_frequency"].value))))])

\* CompositeModel.eval: the product of the two evaluations
ModelEval(model, params, frequency) ==
    ArrMul(BackgroundEval(model.left, params, frequency),
           ForegroundEval(model.right, params, frequency))

(***************************************************************************)
(* The optimizer, lmfit.model.Model.fit, is external and deterministic.    *)
(* It raises on an unknown method and on a non-finite start value          *)
(* (nan_policy = "raise"); otherwise it returns a ModelResult that keeps   *)
(* the start parameters, the weights and the options, and whose params     *)
(* hold a best value and a standard error per name.  With max_nfev = 1 it  *)
(* stops where it started and reports success = FALSE.                     *)
(***************************************************************************)
KwDefault == "default"
KwMaxNfev == "max_nfev=1"
KwBadMethod == "method=bogus"
KwChoices == {KwDefault, KwMaxNfev, KwBadMethod}

Clip(v, min, max) ==
    IF ~RGeq(v, min) THEN min ELSE IF ~RGeq(max, v) THEN max ELSE v

BestFit(e, kwds) ==
    LET best == IF ~e.vary THEN e.value
                ELSE IF kwds = KwMaxNfev THEN Clip(e.value, e.min, e.max)
                ELSE Clip(RAdd(e.value, One), e.min, e.max)
    IN  [e EXCEPT !.value = best,
                  !.stderr = IF e.vary
                             THEN Some(RDiv(RAbs(best), R(10)))
                             ELSE None]

ModelFitRaises(params, kwds) ==
    IF kwds = KwBadMethod THEN "ValueError: method"
    ELSE IF \E n \in DOMAIN params : ~IsFinite(params[n].value) THEN "ValueError: NaN"
    ELSE ""

ModelFit(model, frequency, data, weights, params, kwds) ==
    [params |-> [n \in DOMAIN params |-> BestFit(params[n], kwds)],
     init_params |-> params,
     weights |-> weights,
     kwds |-> kwds,
     success |-> kwds # KwMaxNfev]

(***************************************************************************)
(* Inputs offered to the constructor and to the methods.                   *)
(***************************************************************************)
Frequency == [i \in 1..NPoints |-> R(i)]

\* complex data whose first point has real part s: Data(0) makes the guessed gain 0
Data(s) == Arr(Complex128, [i \in 1..NPoints |-> CInt(s + i - 1, s * i)])
RealData == Arr(Float64, [i \in 1..NPoints |-> CInt(i, 0)])
DataChoices == {Data(s) : s \in 0..MaxSeed} \cup {RealData}

\* errors: absent, real-valued, with the first point excluded by (1 + 1j) * inf
\* and the others finite, and with a zero imaginary part in the first point
ErrorsExclude ==
    Arr(Complex128, [i \in 1..NPoints |-> IF i = 1 THEN C(Inf, Inf) ELSE CInt(2, 4)])
ErrorsZero ==
    Arr(Complex128, [i \in 1..NPoints |-> IF i = 1 THEN CInt(2, 0) ELSE CInt(i, 1)])
ErrorChoices ==
    {None, Some(RealData), Some(ErrorsExclude), Some(ErrorsZero)}

\* the caller's params: absent, a gain fixed at 0, and a bounded internal_loss
\* together with a name that no guess produces
ParamsFixGain == [n \in {"gain"} |-> Param(Zero, NegInf, Inf, FALSE)]
ParamsBound ==
    [n \in {"internal_loss", "gain_error"} |->
        IF n = "internal_loss" THEN Param(R(3), One, R(5), TRUE)
        ELSE Param(R(4), NegInf, Inf, TRUE)]
ParamChoices == {None, Some(ParamsFixGain), Some(ParamsBound)}

(***************************************************************************)
(* The state: one ResonatorFitter and the call in progress on it.          *)
(***************************************************************************)
VARIABLES
    args,   \* the arguments of the constructor call
    self,   \* the attributes frequency, data, errors, model, result of the instance
    obj,    \* "new", "constructing", "live" (constructor returned) or "failed"
    op,     \* the public call in progress, or the last one
    pc,     \* the position of the call in progress, "returned" when it has ended
    local,  \* the local variables of guess() and fit()
    log,    \* the calls to the plug-ins and to the optimizer made by the call in op
    ret,    \* how the last public call ended, or that it is pending
    hist    \* history: the object the optimizer returned last, and the result
            \* the constructor stored

vars == <<args, self, obj, op, pc, local, log, ret, hist>>

NoArray == Arr(Complex128, <<>>)

NoLocal ==
    [frequency |-> <<>>, data |-> NoArray, guess |-> NoParams,
     background_guess |-> NoArray, initial_params |-> NoParams]

\* a public call: its name and its arguments (those it does not take are empty)
NoCall ==
    [name |-> "", params |-> None, kwds |-> "default", frequency |-> <<>>,
     data |-> NoArray, attr |-> ""]

Returned(name, value) ==
    [op |-> name, outcome |-> "return", exc |-> "", value |-> value]
Pending(name) ==
    [op |-> name, outcome |-> "pending", exc |-> "", value |-> None]
Raised(name, exc) ==
    [op |-> name, outcome |-> "raise", exc |-> exc, value |-> None]

Entry(callee, a, r, raised) ==
    [callee |-> callee, args |-> a, ret |-> r, raised |-> raised]

Init ==
    /\ args \in [frequency : {Frequency}, data : DataChoices, errors : ErrorChoices,
                 foreground_model : FgModels, background_model : BgModels,
                 params : ParamChoices, fit_kwds : KwChoices]
    /\ self = [frequency |-> None, data |-> None, errors |-> None, model |-> None,
               result |-> None]
    /\ obj = "new"
    /\ op = NoCall
    /\ pc = "idle"
    /\ local = NoLocal
    /\ log = <<>>
    /\ ret = Returned("", None)
    /\ hist = [last_return |-> None, ctor_result |-> None]

\* an exception leaves the call in op: a failed constructor leaves no instance
Raise(exc) ==
    /\ ret' = Raised(op.name, exc)
    /\ pc' = "returned"
    /\ obj' = IF obj = "constructing" THEN "failed" ELSE obj
    /\ local' = NoLocal

\* fit() starts by calling guess(frequency=self.frequency, data=self.data)
EnterFit(s) ==
    /\ local' = [NoLocal EXCEPT !.frequency = Val(s.frequency), !.data = Val(s.data)]
    /\ pc' = "guess_bg"

\* a faulty variant of the type checks that forgets the errors
CtorTypeErrorDataOnly(a) ==
    IF ~IsComplexObj(a.data) THEN "TypeError: data" ELSE ""

\* the type checks of __init__, lines 66-69: the error raised, or ""
CtorTypeError(a) ==
    IF ~IsComplexObj(a.data) THEN "TypeError: data"
    ELSE IF ~IsNone(a.errors) /\ ~IsComplexObj(Val(a.errors)) THEN "TypeError: errors"
    ELSE ""

\* __init__ up to its call of fit()
Construct ==
    /\ obj = "new"
    /\ log' = <<>>
    /\ op' = [NoCall EXCEPT !.name = "__init__", !.params = args.params,
                            !.kwds = args.fit_kwds]
    /\ UNCHANGED <<args, hist>>
    /\ IF CtorTypeError(args) # ""
       THEN /\ ret' = Raised("__init__", CtorTypeError(args))
            /\ obj' = "failed"
            /\ UNCHANGED <<self, pc, local>>
       ELSE LET s == [frequency |-> Some(args.frequency),
                      data |-> Some(args.data),
                      errors |-> args.errors,
                      model |-> Some(Composite(args.background_model,
                                               args.foreground_model)),
                      result |-> None]
            IN  /\ self' = s
                /\ obj' = "constructing"
                /\ EnterFit(s)
                /\ ret' = Pending("__init__")

Idle == obj = "live" /\ pc = "idle"

\* the caller takes the outcome of the call that ended; the instance is idle again
Return ==
    /\ obj = "live"
    /\ pc = "returned"
    /\ pc' = "idle"
    /\ op' = NoCall
    /\ log' = <<>>
    /\ ret' = Returned("", None)
    /\ UNCHANGED <<args, self, obj, local, hist>>

\* a call of fit(params, **fit_kwds) on the live instance
CallFit(params, kwds) ==
    /\ Idle
    /\ op' = [NoCall EXCEPT !.name = "fit", !.params = params, !.kwds = kwds]
    /\ log' = <<>>
    /\ EnterFit(self)
    /\ ret' = Pending("fit")
    /\ UNCHANGED <<args, self, obj, hist>>

\* a call of guess(frequency, data) on the live instance
CallGuess(frequency, data) ==
    /\ Idle
    /\ op' = [NoCall EXCEPT !.name = "guess", !.frequency = frequency, !.data = data]
    /\ log' = <<>>
    /\ local' = [NoLocal EXCEPT !.frequency = frequency, !.data = data]
    /\ pc' = "guess_bg"
    /\ ret' = Pending("guess")
    /\ UNCHANGED <<args, self, obj, hist>>

background_model == Val(self.model).left
foreground_model == Val(self.model).right

\* a faulty variant that hands the raw data to the background guess
BackgroundGuessDataRaw(data, fg) == data

\* guess(), line 139: the data handed to the background guess

BackgroundGuessData(data, fg) == ArrDivScalar(data, Val(fg.reference_point))

\* guess(), line 139: the background guess on data / reference_point
GuessBackground ==
    /\ pc = "guess_bg"
    /\ UNCHANGED <<args, self, op, hist>>
    /\ IF IsNone(foreground_model.reference_point)
       THEN /\ Raise("TypeError: reference_point")
            /\ UNCHANGED log
       ELSE LET d == BackgroundGuessData(local.data, foreground_model)
                a == [data |-> d, frequency |-> local.frequency]
                g == BackgroundGuess(background_model, d, local.frequency)
            IN  \/ /\ log' = Append(log, Entry("background.guess", a, None, TRUE))
                   /\ Raise("PluginError: background.guess")
                \/ /\ log' = Append(log, Entry("background.guess", a, Some(g), FALSE))
                   /\ local' = [local EXCEPT !.guess = g]
                   /\ pc' = "guess_eval"
                   /\ UNCHANGED <<obj, ret>>

\* guess(), line 140: the background evaluated with its guess
GuessEval ==
    /\ pc = "guess_eval"
    /\ LET a == [params |-> local.guess, frequency |-> local.frequency]
           b == BackgroundEval(background_model, local.guess, local.frequency)
       IN  /\ log' = Append(log, Entry("background.eval", a, Some(b), FALSE))
           /\ local' = [local EXCEPT !.background_guess = b]
    /\ pc' = "guess_fg"
    /\ UNCHANGED <<args, self, obj, op, ret, hist>>

\* guess(), lines 141-142: the foreground guess on data / background_guess,
\* merged into the background guess, and the return
GuessForeground ==
    /\ pc = "guess_fg"
    /\ UNCHANGED <<args, self, op, hist>>
    /\ LET d == ArrDiv(local.data, local.background_guess)
           a == [data |-> d, frequency |-> local.frequency]
           f == ForegroundGuess(foreground_model, d, local.frequency)
           g == Update(local.guess, f)
       IN  \/ /\ log' = Append(log, Entry("foreground.guess", a, None, TRUE))
              /\ Raise("PluginError: foreground.guess")
           \/ /\ log' = Append(log, Entry("foreground.guess", a, Some(f), FALSE))
              /\ UNCHANGED obj
              /\ IF op.name = "guess"
                 THEN /\ ret' = Returned("guess", Some(g))
                      /\ pc' = "returned"
                      /\ local' = NoLocal
                 ELSE /\ local' = [local EXCEPT !.guess = g, !.initial_params = g]
                      /\ pc' = "fit_merge"
                      /\ UNCHANGED ret

\* a faulty variant in which the guess overrides the caller's params
MergeParamsGuessWins(guess, params) ==
    IF IsNone(params) THEN guess ELSE Update(Val(params), guess)

\* fit(), lines 154-155: the caller's params merged over the guess
MergeParams(guess, params) ==
    IF IsNone(params) THEN guess ELSE Update(guess, Val(params))

\* a faulty variant that starts a re-fit from the start parameters kept in the
\* stored result
InitialParamsWarmStart(s, guess, params) ==
    IF IsNone(s.result) THEN MergeParams(guess, params)
    ELSE MergeParams(Update(guess, Val(s.result).init_params), params)

\* fit(), lines 153-155: the start parameters of a fit of the instance s
InitialParams(s, guess, params) == MergeParams(guess, params)

FitMerge ==
    /\ pc = "fit_merge"
    /\ local' = [local EXCEPT
                    !.initial_params = InitialParams(self, local.initial_params, op.params)]
    /\ pc' = "fit_optimize"
    /\ UNCHANGED <<args, self, obj, op, log, ret, hist>>

\* a faulty variant that takes the complex reciprocal 1 / errors
WeightsReciprocal(errors) ==
    IF IsNone(errors) THEN None
    ELSE LET e == Val(errors)
         IN  Some(Arr(Complex128, [i \in 1..Len(e.v) |-> CDiv(C(One, Zero), e.v[i])]))

\* the weights property, lines 106-109
Weights(errors) ==
    IF IsNone(errors) THEN None
    ELSE LET e == Val(errors)
         IN  Some(Arr(Complex128, [i \in 1..Len(e.v) |->
                 CAdd(C(RDiv(One, e.v[i].re), Zero),
                      CDiv(C(Zero, One), C(e.v[i].im, Zero)))]))

\* faulty variants of the store: one that drops the optimizer's object, and
\* one that updates the params of the stored result in place
StoreResultDropped(s, r) == s

StoreResultPartial(s, r) ==
    IF IsNone(s.result) THEN [s EXCEPT !.result = Some(r)]
    ELSE [s EXCEPT !.result = Some([Val(s.result) EXCEPT !.params = r.params])]

\* fit(), lines 156-157: the optimizer call and the store of its result
StoreResult(s, r) == [s EXCEPT !.result = Some(r)]

\* a faulty variant that calls the optimizer again when it did not converge
OptimizerCallsRetry(a, r) ==
    IF r.success THEN <<Entry("model.fit", a, Some(r), FALSE)>>
    ELSE <<Entry("model.fit", a, Some(r), FALSE), Entry("model.fit", a, Some(r), FALSE)>>

\* fit(), line 156: the calls of the optimizer made when it returns r
OptimizerCalls(a, r) == <<Entry("model.fit", a, Some(r), FALSE)>>

FitOptimize ==
    /\ pc = "fit_optimize"
    /\ UNCHANGED <<args, op>>
    /\ LET w == Weights(self.errors)
           a == [frequency |-> Val(self.frequency), data |-> Val(self.data),
                 weights |-> w, params |-> local.initial_params, kwds |-> op.kwds]
           exc == ModelFitRaises(local.initial_params, op.kwds)
           r == ModelFit(Val(self.model), Val(self.frequency), Val(self.data), w,
                         local.initial_params, op.kwds)
       IN  IF exc # ""
           THEN /\ log' = Append(log, Entry("model.fit", a, None, TRUE))
                /\ Raise(exc)
                /\ UNCHANGED <<self, hist>>
           ELSE /\ log' = log \o OptimizerCalls(a, r)
                /\ self' = StoreResult(self, r)
                /\ hist' = [last_return |-> Some(r),
                            ctor_result |-> IF obj = "constructing" THEN Some(r)
                                            ELSE hist.ctor_result]
                /\ ret' = Returned(op.name, None)
                /\ pc' = "returned"
                /\ obj' = "live"
                /\ local' = NoLocal

(***************************************************************************)
(* The reads of a live instance.  Each is one step: it makes no call that  *)
(* can change the instance.                                                *)
(***************************************************************************)
\* the names read as attributes, and the stems attr[:-len('_error')] of those
\* that end with '_error'
Stems == {"gain", "missing"}
AttrNames == Stems \cup {n \o "_error" : n \in Stems}

\* the parameter names that the properties of the class look up
ParamNames == Stems \cup {"internal_loss", "coupling_loss", "resonance_frequency"}

EndsWithError(attr) == \E n \in ParamNames : attr = n \o "_error"
Stem(attr) == CHOOSE n \in ParamNames : attr = n \o "_error"

\* a variant that also raises when the parameter has no standard error
GetAttrOutcomeStrict(s, attr) ==
    LET params == Val(s.result).params
    IN  IF EndsWithError(attr)
        THEN IF Stem(attr) \in DOMAIN params /\ ~IsNone(params[Stem(attr)].stderr)
             THEN Returned("__getattr__", params[Stem(attr)].stderr)
             ELSE Raised("__getattr__", "AttributeError")
        ELSE IF attr \in DOMAIN params
             THEN Returned("__getattr__", Some(params[attr].value))
             ELSE Raised("__getattr__", "AttributeError")

\* __getattr__, lines 77-88: called for a name that is no attribute or property
GetAttrOutcome(s, attr) ==
    LET params == Val(s.result).params
    IN  IF EndsWithError(attr)
        THEN IF Stem(attr) \in DOMAIN params
             THEN Returned("__getattr__", params[Stem(attr)].stderr)
             ELSE Raised("__getattr__", "AttributeError")
        ELSE IF attr \in DOMAIN params
             THEN Returned("__getattr__", Some(params[attr].value))
             ELSE Raised("__getattr__", "AttributeError")

\* an operand lookup that raised, and the value of one that returned
Fails(o) == o.outcome = "raise"
Got(o) == Val(o.value)

GetAttr(attr) ==
    /\ Idle
    /\ op' = [NoCall EXCEPT !.name = "__getattr__", !.attr = attr]
    /\ log' = <<>>
    /\ ret' = GetAttrOutcome(self, attr)
    /\ pc' = "returned"
    /\ UNCHANGED <<args, self, obj, local, hist>>

ReadWeights ==
    /\ Idle
    /\ op' = [NoCall EXCEPT !.name = "weights"]
    /\ log' = <<>>
    /\ ret' = Returned("weights", Weights(self.errors))
    /\ pc' = "returned"
    /\ UNCHANGED <<args, self, obj, local, hist>>

\* remove_background, line 204
BackgroundEntry(s, frequency) ==
    Entry("background.eval",
          [params |-> Val(s.result).params, frequency |-> frequency],
          Some(BackgroundEval(Val(s.model).left, Val(s.result).params, frequency)),
          FALSE)

\* a faulty variant that evaluates the background with the start parameters
\* of the fit
RemoveBackgroundValueInitParams(s, frequency, data) ==
    ArrDiv(data, BackgroundEval(Val(s.model).left, Val(s.result).init_params, frequency))

RemoveBackgroundValue(s, frequency, data) ==
    ArrDiv(data, BackgroundEval(Val(s.model).left, Val(s.result).params, frequency))

RemoveBackground(frequency, data) ==
    /\ Idle
    /\ op' = [NoCall EXCEPT !.name = "remove_background", !.frequency = frequency,
                            !.data = data]
    /\ log' = <<BackgroundEntry(self, frequency)>>
    /\ ret' = Returned("remove_background",
                       Some(RemoveBackgroundValue(self, frequency, data)))
    /\ pc' = "returned"
    /\ UNCHANGED <<args, self, obj, local, hist>>

\* a variant with an inversion that returns its argument
InvertOutcomeIdentity(scattering_data) == Returned("invert", Some(scattering_data))

\* invert, line 273: the base class has no inversion
InvertOutcome(scattering_data) == Raised("invert", "NotImplementedError")

Invert(scattering_data) ==
    /\ Idle
    /\ op' = [NoCall EXCEPT !.name = "invert", !.data = scattering_data]
    /\ log' = <<>>
    /\ ret' = InvertOutcome(scattering_data)
    /\ pc' = "returned"
    /\ UNCHANGED <<args, self, obj, local, hist>>

\* remove_background_and_invert, line 286: invert(remove_background(...))
RemoveBackgroundAndInvert(raw_scattering_data, measurement_frequency) ==
    /\ Idle
    /\ op' = [NoCall EXCEPT !.name = "remove_background_and_invert",
                            !.frequency = measurement_frequency,
                            !.data = raw_scattering_data]
    /\ LET d == RemoveBackgroundValue(self, measurement_frequency, raw_scattering_data)
           r == InvertOutcome(d)
       IN  /\ log' = <<BackgroundEntry(self, measurement_frequency),
                       Entry("self.invert", [data |-> d, frequency |-> <<>>],
                             None, r.outcome = "raise")>>
           /\ ret' = [r EXCEPT !.op = "remove_background_and_invert"]
    /\ pc' = "returned"
    /\ UNCHANGED <<args, self, obj, local, hist>>

(***************************************************************************)
(* The model evaluations and the snapshot, lines 159-239.  An array handed *)
(* to the caller is a reference: owner names the attribute of the instance *)
(* whose array object it is, and is "" for an array made by the call.      *)
(***************************************************************************)
ModelValuesOutcome(s, frequency, params) ==
    LET p == IF IsNone(params) THEN Val(s.result).params ELSE Val(params)
        f == IF IsNone(frequency) THEN Val(s.frequency) ELSE Val(frequency)
    IN  Entry("model.eval", [params |-> p, frequency |-> f],
              Some(ModelEval(Val(s.model), p, f)), FALSE)

\* model_values(frequency, params), lines 167-171
ModelValues(frequency, params) ==
    /\ Idle
    /\ op' = [NoCall EXCEPT !.name = "model_values", !.params = params,
                            !.frequency = IF IsNone(frequency) THEN <<>>
                                          ELSE Val(frequency)]
    /\ log' = <<ModelValuesOutcome(self, frequency, params)>>
    /\ ret' = Returned("model_values", ModelValuesOutcome(self, frequency, params).ret)
    /\ pc' = "returned"
    /\ UNCHANGED <<args, self, obj, local, hist>>

\* initial_model_values(frequency), lines 180-182: it reads
\* self.result.initial_params, an attribute that the optimizer's result object
\* has or has not (lmfit names it init_params)
InitialModelValues(frequency, has_initial_params) ==
    /\ Idle
    /\ op' = [NoCall EXCEPT !.name = "initial_model_values",
                            !.frequency = IF IsNone(frequency) THEN <<>>
                                          ELSE Val(frequency)]
    /\ IF has_initial_params
       THEN LET e == ModelValuesOutcome(self, frequency,
                                        Some(Val(self.result).init_params))
            IN  /\ log' = <<e>>
                /\ ret' = Returned("initial_model_values", e.ret)
       ELSE /\ log' = <<>>
            /\ ret' = Raised("initial_model_values", "AttributeError")
    /\ pc' = "returned"
    /\ UNCHANGED <<args, self, obj, local, hist>>

\* the foreground_data property, line 209
ForegroundData ==
    /\ Idle
    /\ op' = [NoCall EXCEPT !.name = "foreground_data"]
    /\ log' = <<BackgroundEntry(self, Val(self.frequency))>>
    /\ ret' = Returned("foreground_data",
                       Some(RemoveBackgroundValue(self, Val(self.frequency),
                                                  Val(self.data))))
    /\ pc' = "returned"
    /\ UNCHANGED <<args, self, obj, local, hist>>

\* a reference to an array made by the call
New(a) == [owner |-> "", array |-> a]

\* a faulty variant that hands out the stored array itself
CopyShared(attr, a) == [owner |-> attr, array |-> a]

\* self.<attr>.copy(), lines 225-228
Copy(attr, a) == New(a)

\* the least and the greatest element of a sequence of reals
RMin(f) == CHOOSE x \in {f[i] : i \in 1..Len(f)} : \A i \in 1..Len(f) : RGeq(f[i], x)
RMax(f) == CHOOSE x \in {f[i] : i \in 1..Len(f)} : \A i \in 1..Len(f) : RGeq(x, f[i])

\* np.linspace(start, stop, num)
Linspace(start, stop, num) ==
    [i \in 1..num |->
        IF num = 1 THEN start
        ELSE RAdd(start, RMul(Q(i - 1, num - 1), RSub(stop, start)))]

MeasurementModelResonance(measurement_frequency, measurement_data, model_frequency, model_data, resonance_frequency, resonance_data) ==
    [measurement_frequency |-> measurement_frequency,
     measurement_data |-> measurement_data,
     model_frequency |-> model_frequency,
     model_data |-> model_data,
     resonance_frequency |-> resonance_frequency,
     resonance_data |-> resonance_data]

\* measurement_model_resonance(normalize, num_model_points), lines 225-239; a
\* float frequency is an array of one element
MeasurementModelResonanceOutcome(s, normalize, num_model_points) ==
    LET params == Val(s.result).params
        measurement_frequency == Copy("frequency", Val(s.frequency))
        measurement_data == Copy("data", Val(s.data))
        model_frequency ==
            IF IsNone(num_model_points) THEN Copy("frequency", Val(s.frequency))
            ELSE New(Linspace(RMin(measurement_frequency.array),
                              RMax(measurement_frequency.array),
                              Val(num_model_points)))
        model_data == ModelEval(Val(s.model), params, model_frequency.array)
        resonance_frequency == GetAttrOutcome(s, "resonance_frequency")
    IN  IF Fails(resonance_frequency) THEN resonance_frequency
        ELSE LET f_r == <<Got(resonance_frequency)>>
                 resonance_data == ModelEval(Val(s.model), params, f_r)
             IN  IF normalize
                 THEN Returned("", Some(MeasurementModelResonance(
                          measurement_frequency,
                          New(RemoveBackgroundValue(s, measurement_frequency.array,
                                                    measurement_data.array)),
                          model_frequency,
                          New(RemoveBackgroundValue(s, model_frequency.array, model_data)),
                          Got(resonance_frequency),
                          RemoveBackgroundValue(s, f_r, resonance_data))))
                 ELSE Returned("", Some(MeasurementModelResonance(
                          measurement_frequency, measurement_data,
                          model_frequency, New(model_data),
                          Got(resonance_frequency), resonance_data)))

ReadMeasurementModelResonance(normalize, num_model_points) ==
    /\ Idle
    /\ op' = [NoCall EXCEPT !.name = "measurement_model_resonance"]
    /\ log' = <<>>
    /\ ret' = [MeasurementModelResonanceOutcome(self, normalize, num_model_points)
                  EXCEPT !.op = "measurement_model_resonance"]
    /\ pc' = "returned"
    /\ UNCHANGED <<args, self, obj, local, hist>>

\* the attributes of the instance whose array object is in the snapshot
SnapshotOwners(snapshot) ==
    {snapshot.measurement_frequency.owner, snapshot.measurement_data.owner,
     snapshot.model_frequency.owner, snapshot.model_data.owner}

\* the caller overwrites the first element of every array of the snapshot it
\* received and drops the snapshot: an array that is a stored array of the
\* instance changes there too
WriteSnapshot ==
    /\ obj = "live"
    /\ pc = "returned"
    /\ ret.op = "measurement_model_resonance"
    /\ ret.outcome = "return"
    /\ self' = [self EXCEPT
                  !.frequency =
                      IF "frequency" \in SnapshotOwners(Val(ret.value))
                      THEN Some([Val(@) EXCEPT ![1] = R(-1)]) ELSE @,
                  !.data =
                      IF "data" \in SnapshotOwners(Val(ret.value))
                      THEN Some([Val(@) EXCEPT !.v[1] = CInt(-1, -1)]) ELSE @]
    /\ pc' = "idle"
    /\ op' = NoCall
    /\ log' = <<>>
    /\ ret' = Returned("", None)
    /\ UNCHANGED <<args, obj, local, hist>>

(***************************************************************************)
(* The derived quantities, lines 310-376.  Each property looks its         *)
(* operands up through __getattr__ and computes with floats: a missing     *)
(* parameter raises AttributeError, a standard error that is None raises   *)
(* TypeError in the arithmetic, and a zero divisor raises                  *)
(* ZeroDivisionError when the operands are Python floats and gives inf or  *)
(* nan when they are numpy float64 (lmfit keeps the type it was given).    *)
(* x ** (1 / 2) is exact: the non-negative real whose square is x, held by *)
(* that square (and by the divisor, when the root is divided).             *)
(***************************************************************************)
Root(x) == [square |-> x, over |-> One]
\* root / y for a real y >= 0: the quotient is held as the root and its
\* divisor, (square ** (1 / 2)) / over
RootDiv(r, y) == [r EXCEPT !.over = RMul(@, y)]

\* x / y for a real x, or a root x, and a real y >= 0
FloatDiv(x, y, numpy, root) ==
    IF y = Zero /\ ~numpy THEN Raised("", "ZeroDivisionError")
    ELSE Returned("", Some(IF root THEN RootDiv(x, y) ELSE RDiv(x, y)))

\* line 316
total_loss(s) ==
    LET a == GetAttrOutcome(s, "internal_loss")
        b == GetAttrOutcome(s, "coupling_loss")
    IN  IF Fails(a) THEN a
        ELSE IF Fails(b) THEN b
        ELSE Returned("", Some(RAdd(Got(a), Got(b))))

\* a faulty variant that adds the two errors linearly
total_loss_errorLinear(s) ==
    LET a == GetAttrOutcome(s, "internal_loss_error")
        b == GetAttrOutcome(s, "coupling_loss_error")
    IN  IF Fails(a) THEN a
        ELSE IF IsNone(a.value) THEN Raised("", "TypeError")
        ELSE IF Fails(b) THEN b
        ELSE IF IsNone(b.value) THEN Raised("", "TypeError")
        ELSE LET sum == RAdd(Got(a), Got(b))
             IN  Returned("", Some(Root(RMul(sum, sum))))

\* line 321
total_loss_error(s) ==
    LET a == GetAttrOutcome(s, "internal_loss_error")
        b == GetAttrOutcome(s, "coupling_loss_error")
    IN  IF Fails(a) THEN a
        ELSE IF IsNone(a.value) THEN Raised("", "TypeError")
        ELSE IF Fails(b) THEN b
        ELSE IF IsNone(b.value) THEN Raised("", "TypeError")
        ELSE Returned("", Some(Root(RAdd(RMul(Got(a), Got(a)),
                                         RMul(Got(b), Got(b))))))

\* lines 326 and 346: 1 / self.<loss>
QualityFactor(s, loss, numpy) ==
    LET a == GetAttrOutcome(s, loss)
    IN  IF Fails(a) THEN a ELSE FloatDiv(One, Got(a), numpy, FALSE)

\* lines 336 and 356: self.<loss>_error / self.<loss> ** 2
QualityFactorError(s, loss, numpy) ==
    LET e == GetAttrOutcome(s, loss \o "_error")
        a == GetAttrOutcome(s, loss)
    IN  IF Fails(e) THEN e
        ELSE IF Fails(a) THEN a
        ELSE IF IsNone(e.value) THEN Raised("", "TypeError")
        ELSE FloatDiv(Got(e), RMul(Got(a), Got(a)), numpy, FALSE)

coupling_quality_factor(s, numpy) == QualityFactor(s, "coupling_loss", numpy)
coupling_quality_factor_error(s, numpy) == QualityFactorError(s, "coupling_loss", numpy)
internal_quality_factor(s, numpy) == QualityFactor(s, "internal_loss", numpy)
internal_quality_factor_error(s, numpy) == QualityFactorError(s, "internal_loss", numpy)

\* line 366: 1 / (self.internal_loss + self.coupling_loss)
total_quality_factor(s, numpy) ==
    LET a == GetAttrOutcome(s, "internal_loss")
        b == GetAttrOutcome(s, "coupling_loss")
    IN  IF Fails(a) THEN a
        ELSE IF Fails(b) THEN b
        ELSE FloatDiv(One, RAdd(Got(a), Got(b)), numpy, FALSE)

\* line 376: self.total_loss_error / self.total_loss ** 2
total_quality_factor_error(s, numpy) ==
    LET e == total_loss_error(s)
        t == total_loss(s)
    IN  IF Fails(e) THEN e
        ELSE IF Fails(t) THEN t
        ELSE FloatDiv(Got(e), RMul(Got(t), Got(t)), numpy, TRUE)

DerivedNames ==
    {"total_loss", "total_loss_error", "coupling_quality_factor",
     "coupling_quality_factor_error", "internal_quality_factor",
     "internal_quality_factor_error", "total_quality_factor",
     "total_quality_factor_error"}

DerivedOutcome(s, name, numpy) ==
    CASE name = "total_loss" -> total_loss(s)
      [] name = "total_loss_error" -> total_loss_error(s)
      [] name = "coupling_quality_factor" -> coupling_quality_factor(s, numpy)
      [] name = "coupling_quality_factor_error" -> coupling_quality_factor_error(s, numpy)
      [] name = "internal_quality_factor" -> internal_quality_factor(s, numpy)
      [] name = "internal_quality_factor_error" -> internal_quality_factor_error(s, numpy)
      [] name = "total_quality_factor" -> total_quality_factor(s, numpy)
      [] name = "total_quality_factor_error" -> total_quality_factor_error(s, numpy)

\* a read of one of the derived-quantity properties
ReadDerived(name, numpy) ==
    /\ Idle
    /\ op' = [NoCall EXCEPT !.name = name]
    /\ log' = <<>>
    /\ ret' = [DerivedOutcome(self, name, numpy) EXCEPT !.op = name]
    /\ pc' = "returned"
    /\ UNCHANGED <<args, self, obj, local, hist>>

\* the frequencies and data offered to the reads: the sweep and one
\* measurement frequency; raw data and data made of the fitted background times x
FrequencyChoices == {Frequency, <<R(NPoints + 1)>>}
XChoices == {Data(s) : s \in 1..MaxSeed}
\* the optional arguments of the evaluations: the default and one value
OptFrequencyChoices == {None, Some(<<R(NPoints + 1)>>)}
NumModelPointsChoices == {None, Some(NPoints + 1)}
TimesBackground(s, frequency, x) ==
    ArrMul(BackgroundEval(Val(s.model).left, Val(s.result).params, frequency), x)

Next ==
    \/ Construct
    \/ \E p \in ParamChoices, k \in KwChoices : CallFit(p, k)
    \/ \E s \in 0..MaxSeed : CallGuess(Frequency, Data(s))
    \/ GuessBackground
    \/ GuessEval
    \/ GuessForeground
    \/ FitMerge
    \/ FitOptimize
    \/ \E a \in AttrNames : GetAttr(a)
    \/ ReadWeights
    \/ \E f \in FrequencyChoices, x \in XChoices : RemoveBackground(f, x)
    \/ \E f \in FrequencyChoices, x \in XChoices :
          RemoveBackground(f, TimesBackground(self, f, x))
    \/ \E x \in XChoices : Invert(x)
    \/ \E f \in FrequencyChoices, x \in XChoices : RemoveBackgroundAndInvert(x, f)
    \/ \E f \in OptFrequencyChoices : ModelValues(f, None)
    \/ \E f \in OptFrequencyChoices : ModelValues(f, Some(Val(self.result).init_params))
    \/ \E f \in OptFrequencyChoices, has \in BOOLEAN : InitialModelValues(f, has)
    \/ ForegroundData
    \/ \E normalize \in BOOLEAN, n \in NumModelPointsChoices :
          ReadMeasurementModelResonance(normalize, n)
    \/ WriteSnapshot
    \/ \E name \in DerivedNames, numpy \in BOOLEAN : ReadDerived(name, numpy)
    \/ Return

Spec == Init /\ [][Next]_vars

(***************************************************************************)
(* The derived quantities on any stored parameters: a live instance whose  *)
(* optimizer returned a loss value and a standard error out of small sets  *)
(* (a zero, a negative and positive values; no standard error, and         *)
(* standard errors of 1 % and of whole numbers), read through every        *)
(* derived-quantity property.                                              *)
(***************************************************************************)
LossValues == {R(-1), Zero, One, R(2)}
StderrChoices == {None, Some(Q(1, 100)), Some(Q(2, 100)), Some(R(3)), Some(R(4))}

LossParams(vi, ei, vc, ec) ==
    [n \in {"internal_loss", "coupling_loss"} |->
        IF n = "internal_loss"
        THEN [Param(vi, NegInf, Inf, TRUE) EXCEPT !.stderr = ei]
        ELSE [Param(vc, NegInf, Inf, TRUE) EXCEPT !.stderr = ec]]

\* the ModelResult of a fit that started at, and ended with, params
StoredResult(params) ==
    [params |-> params, init_params |-> params, weights |-> None,
     kwds |-> KwDefault, success |-> TRUE]

InitDerived ==
    /\ args = [frequency |-> Frequency, data |-> Data(1), errors |-> None,
               foreground_model |-> [reference_point |-> Some(CInt(1, 0))],
               background_model |-> [kind |-> "plain"],
               params |-> None, fit_kwds |-> KwDefault]
    /\ \E vi \in LossValues, vc \in LossValues,
          ei \in StderrChoices, ec \in StderrChoices :
          LET r == StoredResult(LossParams(vi, ei, vc, ec))
          IN  /\ self = [frequency |-> Some(Frequency), data |-> Some(Data(1)),
                         errors |-> None,
                         model |-> Some(Composite(args.background_model,
                                                  args.foreground_model)),
                         result |-> Some(r)]
              /\ hist = [last_return |-> Some(r), ctor_result |-> Some(r)]
    /\ obj = "live"
    /\ op = NoCall
    /\ pc = "idle"
    /\ local = NoLocal
    /\ log = <<>>
    /\ ret = Returned("", None)

NextDerived ==
    \/ \E name \in DerivedNames, numpy \in BOOLEAN : ReadDerived(name, numpy)
    \/ Return

SpecDerived == InitDerived /\ [][NextDerived]_vars

(***************************************************************************)
(* Properties.                                                             *)
(***************************************************************************)
\* the entries of the log that are calls of callee
Calls(callee) == {i \in 1..Len(log) : log[i].callee = callee}

\* the frequency and data that the guess in progress (or just ended) was given:
\* the arguments of guess(), or the stored arrays when fit() calls it
GuessData == IF op.name = "guess" THEN op.data ELSE Val(self.data)
GuessFrequency == IF op.name = "guess" THEN op.frequency ELSE Val(self.frequency)

\* C1: a construction whose data is not complex, or whose errors are given and
\* not complex, ends in a TypeError with no call of a guess or of the optimizer
\* made, no attribute set and no result stored; and a construction that ended
\* in that error made no such call.
C1_TypeErrorBeforeAnyCall ==
    LET bad == \/ args.data.dtype # Complex128
               \/ (~IsNone(args.errors) /\ Val(args.errors).dtype # Complex128)
        typeError == /\ ret.op = "__init__"
                     /\ ret.outcome = "raise"
                     /\ ret.exc \in {"TypeError: data", "TypeError: errors"}
    IN  /\ (bad /\ obj # "new") =>
              /\ obj = "failed"
              /\ typeError
              /\ log = <<>>
              /\ IsNone(self.result)
              /\ IsNone(hist.last_return)
        /\ typeError => (bad /\ log = <<>> /\ IsNone(hist.last_return))

C1_Witness ==
    /\ obj = "failed"
    /\ ret.exc = "TypeError: errors"
    /\ args.data.dtype = Complex128

\* C2: in every call of guess, whenever the foreground guess has been called,
\* the log before it holds the background guess, called first on
\* data / reference_point and returned, then the background evaluated at the
\* frequency with that guess, and the foreground guess received the data
\* divided by that evaluation; the background guess never receives anything
\* but data / reference_point.
C2_GuessOrder ==
    /\ \A i \in Calls("background.guess") :
          /\ i = 1
          /\ log[i].args.data =
                Arr(Complex128, [j \in 1..Len(GuessData.v) |->
                    CDiv(GuessData.v[j], Val(foreground_model.reference_point))])
          /\ log[i].args.frequency = GuessFrequency
    /\ \A i \in Calls("background.eval") :
          (op.name \in {"__init__", "fit", "guess"}) =>
              /\ i = 2
              /\ log[1].callee = "background.guess" /\ ~log[1].raised
              /\ log[i].args.params = Val(log[1].ret)
              /\ log[i].args.frequency = GuessFrequency
    /\ \A i \in Calls("foreground.guess") :
          /\ i = 3
          /\ log[1].callee = "background.guess" /\ ~log[1].raised
          /\ log[2].callee = "background.eval"
          /\ log[i].args.data =
                Arr(Complex128, [j \in 1..Len(GuessData.v) |->
                    CDiv(GuessData.v[j], Val(log[2].ret).v[j])])
          /\ log[i].args.frequency = GuessFrequency

C2_Witness ==
    /\ op.name = "guess"
    /\ ret.outcome = "return"
    /\ Calls("foreground.guess") = {3}
    /\ log[1].args.data # op.data
    /\ log[3].args.data # op.data

\* C3: the params handed to the optimizer hold exactly the names of the
\* background guess, the foreground guess and the caller's params; each name of
\* the caller's params has the caller's entry, each other name of the
\* foreground guess the foreground's entry, and each remaining name the
\* background's entry.
C3_InitialParams ==
    \A i \in Calls("model.fit") :
        LET initial == log[i].args.params
            bg == Val(log[1].ret)
            fg == Val(log[3].ret)
            caller == IF IsNone(op.params) THEN {} ELSE DOMAIN Val(op.params)
        IN  /\ DOMAIN initial = DOMAIN bg \cup DOMAIN fg \cup caller
            /\ \A n \in DOMAIN initial :
                  initial[n] = IF n \in caller THEN Val(op.params)[n]
                               ELSE IF n \in DOMAIN fg THEN fg[n]
                               ELSE bg[n]

C3_Witness ==
    /\ Calls("model.fit") = {4}
    /\ background_model.kind = "clash"
    /\ op.params = Some(ParamsBound)
    /\ log[4].args.params["internal_loss"].max = R(5)
    /\ log[4].args.params["coupling_loss"].value = One

\* C4: once the constructor has returned, in every state (idle, in the middle
\* of a re-fit, after a failed re-fit, after any read) the stored result is
\* not None and is the object the optimizer returned last.
C4_ResultExists ==
    obj = "live" => (~IsNone(self.result) /\ self.result = hist.last_return)

C4_Witness ==
    /\ obj = "live"
    /\ ret.op = "fit"
    /\ ret.outcome = "raise"
    /\ ~IsNone(self.result)

\* C5: in every step the attributes of the instance change only by the one
\* store at the end of fit(), from the position of the optimizer call, and
\* the value stored is the object the optimizer returned in that step; a
\* step that raises leaves the instance as it was.
C5_ResultReplacedAsUnit ==
    [][(obj # "new") =>
         /\ (self' # self) =>
               /\ pc = "fit_optimize"
               /\ self' = [self EXCEPT !.result = self'.result]
               /\ Len(log') = 4
               /\ log'[4].callee = "model.fit" /\ ~log'[4].raised
               /\ self'.result = log'[4].ret
         /\ (ret'.outcome = "raise" /\ ret.outcome = "pending") => self' = self
         /\ (pc \in {"guess_bg", "guess_eval", "guess_fg", "fit_merge"}) => self' = self
      ]_vars

C5_Witness ==
    /\ obj = "live"
    /\ op.name = "fit"
    /\ pc = "fit_optimize"
    /\ ~IsNone(self.result)
    /\ Val(self.result).init_params # local.initial_params

\* C6: a fit whose params and options are those of the constructor call and
\* that returns leaves the result the constructor stored, whatever fits came
\* between.
C6_RefitIdempotent ==
    (/\ obj = "live"
     /\ ret.op = "fit"
     /\ ret.outcome = "return"
     /\ op.params = args.params
     /\ op.kwds = args.fit_kwds) => self.result = hist.ctor_result

C6_Witness ==
    /\ obj = "live"
    /\ ret.op = "fit"
    /\ ret.outcome = "return"
    /\ op.params = args.params
    /\ op.kwds = args.fit_kwds
    /\ op.params = Some(ParamsBound)
    /\ self.result = hist.ctor_result

\* C7 as stated: a read of p (a name that is not itself an error lookup)
\* yields the best-fit value of parameter p, a read of p + "_error" yields its
\* standard error, and the read raises AttributeError when p is no fit
\* parameter or has no standard error.
C7_MissingStderrRaises ==
    (ret.op = "__getattr__") =>
        LET params == Val(self.result).params
        IN  /\ \A p \in DOMAIN params :
                  /\ (op.attr = p /\ ~EndsWithError(p)) =>
                        (ret.outcome = "return" /\ ret.value = Some(params[p].value))
                  /\ (op.attr = p \o "_error" /\ ~IsNone(params[p].stderr)) =>
                        (ret.outcome = "return" /\ ret.value = params[p].stderr)
                  /\ (op.attr = p \o "_error" /\ IsNone(params[p].stderr)) =>
                        (ret.outcome = "raise" /\ ret.exc = "AttributeError")
            /\ \A p \in Stems \ DOMAIN params :
                  (op.attr \in {p, p \o "_error"}) =>
                        (ret.outcome = "raise" /\ ret.exc = "AttributeError")

\* C7, amended: a name that ends with "_error" is read as the standard error
\* of its stem: the read returns the stored stderr of the stem, None when
\* none was computed, and raises AttributeError only when the stem is no fit
\* parameter; any other name yields the best-fit value of the parameter of
\* that name and raises AttributeError when there is none.
C7_AttributeFallback ==
    (ret.op = "__getattr__") =>
        LET params == Val(self.result).params
            stems == {p \in Stems : op.attr = p \o "_error"}
        IN  IF stems # {}
            THEN \A p \in stems :
                    IF p \in DOMAIN params
                    THEN ret.outcome = "return" /\ ret.value = params[p].stderr
                    ELSE ret.outcome = "raise" /\ ret.exc = "AttributeError"
            ELSE IF op.attr \in DOMAIN params
                 THEN ret.outcome = "return" /\ ret.value = Some(params[op.attr].value)
                 ELSE ret.outcome = "raise" /\ ret.exc = "AttributeError"

\* a read of gain_error on a result whose gain was fixed, so has no stderr
C7_Witness ==
    /\ ret.op = "__getattr__"
    /\ op.attr = "gain_error"
    /\ "gain" \in DOMAIN Val(self.result).params
    /\ IsNone(Val(self.result).params["gain"].stderr)
    /\ ret.outcome = "return"
    /\ IsNone(ret.value)

\* the background of the stored result at the frequency of the call in op
FittedBackground ==
    BackgroundEval(background_model, Val(self.result).params, op.frequency)

\* C8: whenever remove_background(f, data) was called with data equal to the
\* fitted background at f times some x, and that background is nonzero at
\* every point, it returned x.
C8_RoundTrip ==
    (ret.op = "remove_background") =>
        \A x \in XChoices :
            (/\ \A i \in 1..Len(FittedBackground.v) : FittedBackground.v[i] # CInt(0, 0)
             /\ op.data = ArrMul(FittedBackground, x)) => ret.value = Some(x)

C8_Witness ==
    /\ ret.op = "remove_background"
    /\ op.frequency = <<R(NPoints + 1)>>
    /\ FittedBackground.v[1] # CInt(0, 0)
    /\ op.data = ArrMul(FittedBackground, Data(1))
    /\ op.data # Data(1)
    /\ ret.value = Some(Data(1))

\* C9: every call of invert raises NotImplementedError, and every call of
\* remove_background_and_invert(raw, f) evaluates the background with the
\* best-fit parameters at f, calls invert on raw divided by that, ends in the
\* same NotImplementedError, and leaves the instance unchanged.
C9_InvertNotImplemented ==
    [][(Idle /\ op'.name \in {"invert", "remove_background_and_invert"}) =>
         /\ ret'.outcome = "raise"
         /\ ret'.exc = "NotImplementedError"
         /\ self' = self
         /\ (op'.name = "remove_background_and_invert") =>
               LET b == BackgroundEval(background_model, Val(self.result).params,
                                       op'.frequency)
               IN  /\ Len(log') = 2
                   /\ log'[1].callee = "background.eval"
                   /\ log'[1].args.params = Val(self.result).params
                   /\ log'[1].args.frequency = op'.frequency
                   /\ log'[2].callee = "self.invert"
                   /\ log'[2].raised
                   /\ log'[2].args.data =
                         Arr(Complex128, [i \in 1..Len(op'.data.v) |->
                             CDiv(op'.data.v[i], IF Len(b.v) = 1 THEN b.v[1] ELSE b.v[i])])
      ]_vars

C9_Witness ==
    /\ ret.op = "remove_background_and_invert"
    /\ ret.exc = "NotImplementedError"
    /\ Len(log) = 2
    /\ log[2].args.data # op.data

\* 1/a for a nonzero real a, with 1/inf = 0
Reciprocal(a) == IF ~IsFinite(a) THEN Zero ELSE Q(a[2], a[1])

\* C10: in every optimizer call the weights are None when the instance has no
\* errors; otherwise there is one weight per point, a point whose error has
\* nonzero real part a and nonzero imaginary part b has the weight
\* 1/a + 1j/b, and a point whose error is inf + inf j has the weight 0 + 0j.
C10_Weights ==
    \A i \in Calls("model.fit") :
        LET w == log[i].args.weights
        IN  IF IsNone(self.errors) THEN IsNone(w)
            ELSE /\ ~IsNone(w)
                 /\ Len(Val(w).v) = Len(Val(self.errors).v)
                 /\ \A j \in 1..Len(Val(self.errors).v) :
                       LET e == Val(self.errors).v[j]
                       IN  /\ (e.re # Zero /\ e.im # Zero) =>
                                 Val(w).v[j] = C(Reciprocal(e.re), Reciprocal(e.im))
                           /\ (e = C(Inf, Inf)) => Val(w).v[j] = CInt(0, 0)

C10_Witness ==
    /\ Calls("model.fit") = {4}
    /\ ~log[4].raised
    /\ self.errors = Some(ErrorsExclude)
    /\ Val(log[4].args.weights).v[1] = CInt(0, 0)
    /\ Val(log[4].args.weights).v[NPoints] = C(Q(1, 2), Q(1, 4))

\* the stored parameters internal_loss and coupling_loss
StoredLoss(name) == Val(self.result).params[name]

\* C11: whenever both losses are stored with a standard error, total_loss
\* returns internal_loss + coupling_loss and total_loss_error returns the
\* non-negative real whose square is the sum of the squared errors; when
\* moreover the total loss is not zero, total_quality_factor returns
\* 1 / total_loss, total_quality_factor_error returns
\* total_loss_error / total_loss ** 2, and, for a nonzero internal loss,
\* internal_quality_factor and its error return 1 / internal_loss and
\* internal_loss_error / internal_loss ** 2.  For 1 +- 0.01 and 2 +- 0.02 (the
\* losses in units of 1e-6) the total loss is 3 and the internal quality
\* factor 1 +- 0.01 (in units of 1e6).
C11_DerivedQuantities ==
    (/\ obj = "live"
     /\ ret.op \in DerivedNames
     /\ ~IsNone(StoredLoss("internal_loss").stderr)
     /\ ~IsNone(StoredLoss("coupling_loss").stderr)) =>
        LET li == StoredLoss("internal_loss").value
            lc == StoredLoss("coupling_loss").value
            si == Val(StoredLoss("internal_loss").stderr)
            sc == Val(StoredLoss("coupling_loss").stderr)
            \* the sum li + lc = tn / td, and the sum of squares ss
            tn == li[1] * lc[2] + lc[1] * li[2]
            td == li[2] * lc[2]
            ss == Q(si[1] * si[1] * sc[2] * sc[2] + sc[1] * sc[1] * si[2] * si[2],
                    si[2] * si[2] * sc[2] * sc[2])
            value == Val(ret.value)
        IN  /\ (ret.op = "total_loss") =>
                  (ret.outcome = "return" /\ value = Q(tn, td))
            /\ (ret.op = "total_loss_error") =>
                  (ret.outcome = "return" /\ value = [square |-> ss, over |-> One])
            /\ (ret.op = "total_quality_factor" /\ tn # 0) =>
                  (/\ ret.outcome = "return"
                   /\ value = Q(td, tn)
                   /\ Some(value) = FloatDiv(One, Got(total_loss(self)), FALSE, FALSE).value)
            /\ (ret.op = "total_quality_factor_error" /\ tn # 0) =>
                  (/\ ret.outcome = "return"
                   /\ value = [square |-> ss, over |-> Q(tn * tn, td * td)])
            /\ (ret.op = "internal_quality_factor" /\ li # Zero) =>
                  (ret.outcome = "return" /\ value = Q(li[2], li[1]))
            /\ (ret.op = "internal_quality_factor_error" /\ li # Zero) =>
                  (ret.outcome = "return"
                   /\ value = Q(si[1] * li[2] * li[2], si[2] * li[1] * li[1]))
            /\ (li = One /\ si = Q(1, 100) /\ lc = R(2) /\ sc = Q(2, 100)) =>
                  /\ (ret.op = "total_loss") => value = R(3)
                  /\ (ret.op = "internal_quality_factor") => value = One
                  /\ (ret.op = "internal_quality_factor_error") => value = Q(1, 100)

\* the total quality factor error of 1 +- 0.01 and 2 +- 0.02: the root of
\* 5e-4, over 9
C11_Witness ==
    /\ ret.op = "total_quality_factor_error"
    /\ ret.outcome = "return"
    /\ StoredLoss("internal_loss").value = One
    /\ StoredLoss("internal_loss").stderr = Some(Q(1, 100))
    /\ StoredLoss("coupling_loss").value = R(2)
    /\ StoredLoss("coupling_loss").stderr = Some(Q(2, 100))
    /\ Val(ret.value) = [square |-> Q(5, 10000), over |-> R(9)]

\* the public calls that fit: the constructor and fit()
FitCalls == {"__init__", "fit"}

\* C12: in every call of the constructor or of fit() the optimizer is called
\* at most once, and exactly once, as the last call, when the call returned;
\* when the optimizer returned an object, with success or without, the call
\* returned without an error and that object is the stored result; a call
\* ends in an error only with the optimizer's own error or, before the
\* optimizer is reached, with an error of guess().
C12_SingleOptimizerCall ==
    (op.name \in FitCalls) =>
        /\ Cardinality(Calls("model.fit")) <= 1
        /\ (ret.outcome = "return") =>
              (Calls("model.fit") = {Len(log)} /\ ~log[Len(log)].raised)
        /\ \A i \in Calls("model.fit") :
              IF log[i].raised
              THEN /\ ret.outcome = "raise"
                   /\ ret.exc = ModelFitRaises(log[i].args.params, log[i].args.kwds)
              ELSE /\ ret.outcome = "return"
                   /\ self.result = log[i].ret
        /\ (ret.outcome = "raise" /\ Calls("model.fit") = {}) =>
              /\ Len(log) <= 3
              /\ ret.exc \in {"TypeError: data", "TypeError: errors",
                               "TypeError: reference_point",
                               "PluginError: background.guess",
                               "PluginError: foreground.guess"}

\* a constructor whose one optimizer call did not converge: it returned, and
\* the result it stored says so
C12_Witness ==
    /\ op.name = "__init__"
    /\ ret.outcome = "return"
    /\ obj = "live"
    /\ Calls("model.fit") = {4}
    /\ ~Val(self.result).success
    /\ self.result = log[4].ret

\* the public calls that read
ReadCalls ==
    {"guess", "weights", "__getattr__", "remove_background", "foreground_data",
     "model_values", "initial_model_values", "measurement_model_resonance",
     "invert", "remove_background_and_invert"} \cup DerivedNames

\* C13: in every step of a constructed instance, the attributes change only
\* by the store at the end of a fit, which changes the result alone; every
\* step of a read, and the step in which the call ends, leaves all five
\* attributes as they were; no array of a snapshot returned by
\* measurement_model_resonance is a stored array of the instance, so that a
\* caller who writes into the snapshot leaves the instance unchanged.
C13_OnlyFitChangesState ==
    [][(obj # "new") =>
         /\ (self' # self) =>
               /\ op.name \in FitCalls
               /\ pc = "fit_optimize"
               /\ self'.frequency = self.frequency
               /\ self'.data = self.data
               /\ self'.errors = self.errors
               /\ self'.model = self.model
         /\ (op'.name \in ReadCalls \/ op.name \in ReadCalls) => self' = self
         /\ (ret'.op = "measurement_model_resonance" /\ ret'.outcome = "return") =>
               SnapshotOwners(Val(ret'.value)) = {""}
         /\ (op.name \in FitCalls /\ op'.name = op.name) =>
               /\ self'.frequency = self.frequency
               /\ self'.data = self.data
               /\ self'.errors = self.errors
      ]_vars

\* a snapshot that holds the measurement as it is stored was returned, and
\* the instance is as the constructor left it
C13_Witness ==
    /\ ret.op = "measurement_model_resonance"
    /\ ret.outcome = "return"
    /\ Val(ret.value).measurement_frequency.array = Val(self.frequency)
    /\ Val(ret.value).measurement_data.array = Val(self.data)
    /\ Len(Val(ret.value).model_frequency.array) = NPoints + 1
    /\ self.frequency = Some(args.frequency)
    /\ self.data = Some(args.data)
    /\ self.errors = args.errors

====
